---- MODULE Spec2Model ----
(***************************************************************************)
(* Phantom_Recon enrichment pipeline: the job processor                    *)
(* (EnrichmentPipeline.process_job, POST /jobs/{job_id}/enrich), the       *)
(* per-IOC orchestrator (EnrichmentPipeline.enrich_ioc), the re-enrich     *)
(* endpoint and the upload endpoint that creates the job.                  *)
(*                                                                         *)
(* The database is modelled by its committed state (the jobs row of one    *)
(* job, the enrichment_results table) and, per database session, by the    *)
(* unit of work of the open transaction: rows the DELETE statement         *)
(* matched, rows added and not yet committed, column values written to     *)
(* the job and not yet committed.  A commit applies the unit of work in    *)
(* one step or raises; a raised commit leaves the unit of work in the      *)
(* session until the code calls rollback().  Objects loaded by a session   *)
(* keep the attribute values the session last read or wrote.               *)
(***************************************************************************)
EXTENDS FiniteSets, Integers, Naturals, Sequences, TLC

\* ---- bounds of the model ------------------------------------------------
MaxIocs == 1        \* IOC rows with created_at >= the upload's created_at
MaxProviders == 2   \* adapters of EnrichmentPipeline.adapters that are modelled
MaxRuns == 2        \* database sessions that can be open at the same time
MaxStarts == 2      \* runs started over the life of the job
MaxFaults == 2      \* exceptions injected over one behaviour
MaxDup == 2         \* rows the table can hold for one (ioc_id, provider)
MaxBatch == 2       \* IOCs of the batch that one process_job run goes through
MaxTime == 90       \* the clock (time.time()) stops here
TickStep == 30      \* seconds between two readings of the clock
MaxCalls == 2       \* enrich_ioc passes over the adapters in one behaviour
MaxAdmin == 2       \* cache administration calls in one behaviour
MaxUploadTime == 5  \* the latest Upload.created_at (datetime.utcnow())

Providers == 1..MaxProviders
Iocs == 1..MaxIocs
Runs == 1..MaxRuns
Slots == 1..MaxDup

VARIABLES
    job,           \* the committed jobs row (status "none": no job yet)
    uploadExists,  \* the uploads row the job refers to exists
    nIocs,         \* number of IOC rows with created_at >= upload.created_at
    rows,          \* committed enrichment_results: <<ioc_id, provider, slot>>
    scores,        \* scores[i]: committed ioc_scores rows with ioc_id = i
    run,           \* run[r]: the handler invocation that owns session r
    starts,        \* runs started so far
    faults,        \* exceptions injected so far
    termWrites,    \* commits so far that wrote status done or error
    cache,         \* BaseAdapter._local_cache: key -> [expires_at, payload]
    now,           \* time.time()
    ttl,           \* BaseAdapter.DEFAULT_TTL_POSITIVE / DEFAULT_TTL_NEGATIVE
    call,          \* the enrich_with_cache call in progress and its adapter
    admin,         \* cache administration calls so far and the last arguments
    scoring,       \* the provider -> result map of one IOC and the IOCScore made of it
    adapter,       \* one adapter object: its credentials and its enrich call
    stored,        \* the iocs row of one (value, type, source_platform) and the clock
    shared         \* BaseAdapter._local_cache with the writer of each entry, and a hit

\* The state of the adapter layer, and the state of the job processor.
avars == <<cache, now, ttl, call, admin>>
pvars == <<job, uploadExists, nIocs, rows, scores, run, starts, faults, termWrites>>

\* The state of the scorer.
svars == <<scoring>>

\* The state of one adapter object seen on its own.
cvars == <<adapter>>

\* The state of the ingest of one IOC.
uvars == <<stored>>

\* The state of the cache shared by the adapters of every provider.
kvars == <<shared>>

vars == <<job, uploadExists, nIocs, rows, scores, run, starts, faults, termWrites,
          cache, now, ttl, call, admin, scoring, adapter, stored, shared>>

\* ---- the jobs row -------------------------------------------------------
QUEUED == "queued"
RUNNING == "running"
DONE == "done"
ERROR == "error"

NoJob ==
    [status |-> "none", total_iocs |-> 0, processed_iocs |-> 0,
     successful_iocs |-> 0, failed_iocs |-> 0, error_message |-> "null",
     started_at |-> "null"]

\* Column values written in a transaction; "-" and -1 stand for "not written".
NoWrites ==
    [status |-> "-", total_iocs |-> -1, processed_iocs |-> -1,
     successful_iocs |-> -1, failed_iocs |-> -1, error_message |-> "-",
     started_at |-> "-"]

\* d2 written after d1 in the same transaction.
Merge(d1, d2) ==
    [status |-> IF d2.status = "-" THEN d1.status ELSE d2.status,
     total_iocs |-> IF d2.total_iocs = -1 THEN d1.total_iocs ELSE d2.total_iocs,
     processed_iocs |->
        IF d2.processed_iocs = -1 THEN d1.processed_iocs ELSE d2.processed_iocs,
     successful_iocs |->
        IF d2.successful_iocs = -1 THEN d1.successful_iocs ELSE d2.successful_iocs,
     failed_iocs |-> IF d2.failed_iocs = -1 THEN d1.failed_iocs ELSE d2.failed_iocs,
     error_message |->
        IF d2.error_message = "-" THEN d1.error_message ELSE d2.error_message,
     started_at |-> IF d2.started_at = "-" THEN d1.started_at ELSE d2.started_at]

\* The jobs row after the written columns are committed.
ApplyJob(d) == Merge(job, d)

IsTerminal(s) == s \in {DONE, ERROR}

\* ---- the enrichment_results table ---------------------------------------
RowsOf(table, ioc, p) == {t \in table : t[1] = ioc /\ t[2] = p}
Cnt(ioc, p) == Cardinality(RowsOf(rows, ioc, p))

\* ---- BaseAdapter: the in-process cache -------------------------------------
\* The adapters of EnrichmentPipeline.adapters that are modelled, in the order the
\* orchestrator calls them.
AdapterOrder == <<"virustotal", "urlscan">>

\* The IOCs (type, value) that are enriched.
IocSet == {<<"domain", <<"a.example">>>>, <<"ipv4", <<"192.0.2.1">>>>}

\* A key made of the provider and the value only.
CacheKeyWithoutType(provider, ioc) == <<provider, ":">> \o ioc[2]

\* _get_cache_key: md5 of
\* f"{self.provider_name}:{ioc_type}:{ioc_value}".  A string is the sequence of its
\* parts, a colon being a part of its own; the md5 digest of the string stands for
\* the string (collisions aside).
CacheKey(provider, ioc) == <<provider, ":", ioc[1], ":">> \o ioc[2]

DEFAULT_TTL_POSITIVE == 24 * 60 * 60
DEFAULT_TTL_NEGATIVE == 6 * 60 * 60
max_retries == 4

\* A result dict: verdict, http_status (0 for None) and the kind of its evidence.
Payload(verdict, http_status, evidence) ==
    [verdict |-> verdict, http_status |-> http_status, evidence |-> evidence]

NoPayload == Payload("-", 0, "-")

\* _local_cache[key] = (expires_at, payload)
CachePut(c, key, expires_at, payload) ==
    [k \in DOMAIN c \cup {key} |->
        IF k = key THEN [expires_at |-> expires_at, payload |-> payload] ELSE c[k]]

\* _local_cache.pop(key, None)
CachePop(c, key) == [k \in DOMAIN c \ {key} |-> c[k]]

\* A lookup that never serves an entry.
CacheNeverFresh(c, key, t) == FALSE

\* A lookup that still serves the entry at expires_at.
CacheFreshAtExpiry(c, key, t) == key \in DOMAIN c /\ ~(t > c[key].expires_at)

\* _get_cached_result: the entry is served while time.time() < expires_at.
CacheFresh(c, key, t) == key \in DOMAIN c /\ ~(t >= c[key].expires_at)

\* No call in progress.
NoCall ==
    [pc |-> "idle", p |-> 0, ioc |-> <<"-", <<"-">>>>, ttl_positive |-> 0,
     ttl_negative |-> 0, attempts |-> 0, transport |-> 0, signal |-> "none",
     status |-> 0, posts |-> 0, waited |-> 0, result |-> NoPayload, hit |-> FALSE,
     calls |-> 0, sleeps |-> 0, delay |-> 0]

AdapterInit ==
    /\ cache = <<>>
    /\ now = 0
    /\ ttl = [positive |-> DEFAULT_TTL_POSITIVE, negative |-> DEFAULT_TTL_NEGATIVE]
    /\ call = NoCall
    /\ admin = [n |-> 0, positive |-> 0, negative |-> 0]

\* ---- scoring ------------------------------------------------------------
\* EnrichmentPipeline.adapters, in the order the dict is iterated.
Adapters ==
    <<"virustotal", "urlscan", "osint", "crowdstrike", "flashpoint", "recorded_future">>
NumAdapters == Len(Adapters)

\* The absent value of an optional field (None, or a missing key).
None == "None"

\* A last_seen value as the scorer meets it: absent; a string that fromisoformat
\* reads as a naive datetime; a string with a UTC offset or a trailing Z, read as
\* an aware datetime; a string that does not parse; a number of epoch seconds, as
\* an adapter passes it on from its upstream.  age is its distance from the
\* current UTC time in days.
LastSeen(kind, age) == [kind |-> kind, age |-> age]
NoLastSeen == LastSeen("none", 0)

Result(verdict, actor, family, last_seen) ==
    [verdict |-> verdict, actor |-> actor, family |-> family, last_seen |-> last_seen]

\* The adapter results a map is made of.
ResultSet ==
    { Result("malicious", None, None, NoLastSeen),
      Result("suspicious", None, None, LastSeen("naive", 3)),
      Result("benign", None, "Cobalt Strike", LastSeen("naive", 8)),
      Result("unknown", "APT28", None, NoLastSeen),
      Result("malicious", "APT29", "Cozy Bear", LastSeen("aware", 3)),
      Result("unknown", None, None, LastSeen("garbage", 0)),
      Result("benign", None, None, LastSeen("epoch", 3)) }

\* The IOCScore row of one scoring, and the caller that added it.
Score(by, risk_score, attribution_score, risk_band) ==
    [by |-> by, risk_score |-> risk_score, attribution_score |-> attribution_score,
     risk_band |-> risk_band]
NoScore == Score("none", 0, 0, "none")

\* No result collected, nothing scored.
ScoringInit == scoring = [results |-> <<>>, row |-> NoScore]

\* ---- adapters and their credentials --------------------------------------
\* The adapters that read a credential from the settings, and the settings each
\* of them reads.
KeyedAdapters == {"virustotal", "urlscan", "crowdstrike", "flashpoint", "recorded_future"}

CredentialsOf(name) ==
    CASE name = "virustotal" -> {"VIRUSTOTAL_API_KEY"}
      [] name = "urlscan" -> {"URLSCAN_API_KEY"}
      [] name = "crowdstrike" -> {"CROWDSTRIKE_CLIENT_ID", "CROWDSTRIKE_CLIENT_SECRET"}
      [] name = "flashpoint" -> {"FLASHPOINT_API_KEY"}
      [] name = "recorded_future" -> {"RECORDED_FUTURE_API_KEY"}
      [] OTHER -> {}

\* The adapters that need no credential.
KeylessAdapters == {"osint", "forensic"}

\* IOC.type
IocTypes == {"url", "domain", "ipv4", "sha256", "md5", "email", "subject_keyword"}

\* "http_status": None
NoHttpStatus == 0

\* No adapter constructed.
\* What an upstream response carries for the verdict: a textual level (None when
\* the field is missing), a numeric risk score (0 when missing), the number of
\* engines or flags that call the IOC suspicious, and a label.
RawResponse(text, score, hits, label) ==
    [text |-> text, score |-> score, hits |-> hits, label |-> label]

RawResponses ==
    {RawResponse(text, score, hits, label) :
        text \in {None, "High", "medium", "clean", "weird"},
        score \in {0, 40, 80},
        hits \in BOOLEAN,
        label \in {None, "malware", "suspicious-site"}}

\* No adapter constructed.  cached is the value enrich_with_cache puts in the
\* cache, enrichment_data the entry of the map enrich_ioc returns, row the verdict
\* of the EnrichmentResult row.
NoAdapter ==
    [pc |-> "none", name |-> "none", settings |-> {}, ioc_type |-> "none",
     requests |-> 0, raw |-> RawResponse("-", 0, FALSE, "-"), result |-> NoPayload,
     cached |-> NoPayload, enrichment_data |-> NoPayload, row |-> "-"]

\* A first_seen / last_seen cell of a CSV row: missing or empty, a string that
\* datetime.fromisoformat reads (after Z is replaced by +00:00) as the instant t,
\* or a string it rejects.
CsvTimes ==
    {[kind |-> "empty", t |-> 0], [kind |-> "bad", t |-> 0]}
        \cup {[kind |-> "iso", t |-> t] : t \in 1..(MaxUploadTime + 1)}

\* No datetime (None).
NoTime == 0

\* _parse_dt
parse_dt(value) == IF value.kind = "iso" THEN value.t ELSE NoTime

\* No iocs row for the (value, type, source_platform) yet; created_at is the
\* created_at of the latest upload.
NoIoc == [exists |-> FALSE, first_seen |-> NoTime, last_seen |-> NoTime, created_at |-> 0]

\* The providers whose adapters share the cache, and IOCs whose values hold
\* colons and the name of a type.
KeyProviders == {"virustotal", "urlscan", "osint"}

KeyIocs ==
    {<<"url", <<"a.example">>>>, <<"domain", <<"a.example">>>>,
     <<"url", <<"domain", ":", "a.example">>>>,
     <<"url", <<"a.example", ":", "8080">>>>}

\* A lookup that found an entry: who asked for what, and whose entry it got.
Hit(provider, ioc, writer) == [provider |-> provider, ioc |-> ioc, writer |-> writer]

NoHit == Hit("-", <<"-", <<"-">>>>, <<"-", <<"-", <<"-">>>>>>)

\* ---- runs ---------------------------------------------------------------
\* No IOCScore: of the objects a session has added, or of the rows of the table.
NoScores == [i \in Iocs |-> 0]

\* db.add(IOCScore(ioc_id=ioc.id, ...))
AddScore(sc, ioc) == [sc EXCEPT ![ioc] = sc[ioc] + 1]

Idle ==
    [kind |-> "none", pc |-> "idle", outcome |-> "none", n |-> 0, i |-> 0, p |-> 0,
     successful |-> 0, failed |-> 0, processed |-> 0, memProcessed |-> 0,
     txDel |-> {}, txIns |-> {}, txScores |-> NoScores, dirty |-> NoWrites,
     results |-> {}, enrichOk |-> FALSE,
     noUpload |-> FALSE]

\* A run that has returned or raised; its session is closed.
Ended(rec, how) ==
    [Idle EXCEPT !.kind = rec.kind, !.pc = "ended", !.outcome = how,
                 !.noUpload = rec.noUpload]

Free(r) == run[r].pc \in {"idle", "ended"}
Active(r) == ~Free(r)

Init ==
    /\ job = NoJob
    /\ uploadExists = FALSE
    /\ nIocs = 0
    /\ rows = {}
    /\ scores = NoScores
    /\ run = [r \in Runs |-> Idle]
    /\ starts = 0
    /\ faults = 0
    /\ termWrites = 0
    /\ AdapterInit
    /\ ScoringInit
    /\ adapter = NoAdapter
    /\ stored = NoIoc
    /\ shared = [cache |-> <<>>, hit |-> NoHit]


\* ---- the database session -----------------------------------------------
\* Rows that the other open transactions have matched with a DELETE.
OthersDel(r) == UNION {run[q].txDel : q \in Runs \ {r}}

\* Row identities that a row inserted by session r must not take.
Used(r) == (rows \ run[r].txDel) \cup OthersDel(r)

FreeSlots(r, ioc, p) == {s \in Slots : <<ioc, p, s>> \notin Used(r)}

NewRow(r, pair) ==
    <<pair[1], pair[2],
      CHOOSE s \in FreeSlots(r, pair[1], pair[2]) :
          \A t \in FreeSlots(r, pair[1], pair[2]) : s <= t>>

CanCommit(r, ins) == \A pair \in ins : FreeSlots(r, pair[1], pair[2]) # {}

\* The table after session r commits: its deletes and its inserts in one step.
CommitRows(r, ins) == (rows \ run[r].txDel) \cup {NewRow(r, pair) : pair \in ins}

\* delete(EnrichmentResult).where(ioc_id == ioc.id, provider == provider_name)
DeleteMatched(ioc, p) == RowsOf(rows, ioc, p)

\* await db.commit(): applies the unit of work of session r (the enrichment rows
\* ins, the IOCScore objects sc, the job columns d), or raises.
CommitScores(r, ok, ins, sc, d) ==
    /\ ok \/ faults < MaxFaults
    /\ faults' = IF ok THEN faults ELSE faults + 1
    /\ IF ok
       THEN /\ CanCommit(r, ins)
            /\ rows' = CommitRows(r, ins)
            /\ scores' = [i \in Iocs |-> scores[i] + sc[i]]
            /\ job' = ApplyJob(d)
            /\ termWrites' = termWrites + (IF IsTerminal(d.status) THEN 1 ELSE 0)
       ELSE UNCHANGED <<rows, scores, job, termWrites>>

\* A commit of a session that has added no IOCScore since its last commit.
Commit(r, ok, ins, d) == CommitScores(r, ok, ins, run[r].txScores, d)

\* The session after a commit or a rollback: nothing pending.
Clean(rec) ==
    [rec EXCEPT !.txDel = {}, !.txIns = {}, !.txScores = NoScores, !.dirty = NoWrites]

NoDb == UNCHANGED <<rows, scores, job, termWrites, faults>>

\* ---- upload_csv ---------------------------------------------------------
\* rowsOk valid rows, newIocs of them new IOC rows (the others matched an existing
\* IOC); scheduled: asyncio.create_task(_run_enrichment_job(job.id)) succeeded.
upload_csv(rowsOk, newIocs, scheduled) ==
    /\ job.status = "none"
    /\ newIocs <= rowsOk
    /\ job' = [NoJob EXCEPT !.status = QUEUED, !.total_iocs = rowsOk]
    /\ uploadExists' = TRUE
    /\ nIocs' = newIocs
    /\ run' = IF scheduled
              THEN [run EXCEPT ![1] = [Idle EXCEPT !.kind = "process_job",
                                                   !.pc = "pj_start"]]
              ELSE run
    /\ starts' = IF scheduled THEN 1 ELSE 0
    /\ UNCHANGED <<rows, scores, faults, termWrites>>

\* No run holds a selection of IOCs: a handler reads the uploads and iocs tables
\* once, when it selects, so a change of these tables is seen by the runs that
\* select after it and by no other.
NoSelection == \A q \in Runs : run[q].pc \in {"idle", "ended", "pj_start", "se_queue"}

\* A later upload adds an IOC row; its created_at is >= this upload's created_at,
\* so the job's IOC selection includes it.
LaterUpload ==
    /\ job.status # "none"
    /\ NoSelection
    /\ nIocs < MaxIocs
    /\ nIocs' = nIocs + 1
    /\ UNCHANGED <<job, uploadExists, rows, scores, run, starts, faults, termWrites>>

\* The uploads row is gone: the case both job handlers test for
\* (upload_created_at is None).  No handler deletes an upload and jobs.upload_id is
\* a foreign key, so the row goes only by an operation on the database from outside
\* the application.
RemoveUpload ==
    /\ job.status # "none"
    /\ NoSelection
    /\ uploadExists
    /\ uploadExists' = FALSE
    /\ UNCHANGED <<job, nIocs, rows, scores, run, starts, faults, termWrites>>

\* ---- starting a run -----------------------------------------------------
CanStart(r) ==
    /\ Free(r)
    /\ job.status # "none"
    /\ starts < MaxStarts

\* process_enrichment_job (Celery) / _run_enrichment_job: a session, then process_job.
StartProcessJob(r) ==
    /\ CanStart(r)
    /\ run' = [run EXCEPT ![r] = [Idle EXCEPT !.kind = "process_job", !.pc = "pj_start"]]
    /\ starts' = starts + 1
    /\ UNCHANGED <<job, uploadExists, nIocs, rows, scores, faults, termWrites>>

\* POST /jobs/{job_id}/enrich received.
StartEnrichment(r) ==
    /\ CanStart(r)
    /\ run' = [run EXCEPT ![r] = [Idle EXCEPT !.kind = "start_enrichment",
                                               !.pc = "se_queue"]]
    /\ starts' = starts + 1
    /\ UNCHANGED <<job, uploadExists, nIocs, rows, scores, faults, termWrites>>

\* POST /iocs/{ioc_id}/re-enrich received; the IOC is loaded and enrich_ioc is entered.
StartReEnrich(r, ioc) ==
    /\ CanStart(r)
    /\ ioc <= nIocs
    /\ run' = [run EXCEPT ![r] = [Idle EXCEPT !.kind = "re_enrich", !.pc = "en_call",
                                               !.i = ioc, !.n = ioc, !.p = 1]]
    /\ starts' = starts + 1
    /\ UNCHANGED <<job, uploadExists, nIocs, rows, scores, faults, termWrites>>

\* ---- EnrichmentPipeline.enrich_ioc ---------------------------------------
\* The handler step that follows enrich_ioc, by caller.
AfterEnrich(kind) ==
    CASE kind = "process_job" -> "pj_progress"
      [] kind = "start_enrichment" -> "se_progress"
      [] OTHER -> "re_score"

\* The for loop over self.adapters goes to the next provider, or to the final commit.
NextProvider(rec) ==
    IF rec.p < MaxProviders
    THEN [rec EXCEPT !.p = rec.p + 1, !.pc = "en_call"]
    ELSE [rec EXCEPT !.p = 0, !.pc = "en_final"]

\* enrich_ioc is entered for the IOC with id ioc.
EnterEnrich(rec, ioc) ==
    [rec EXCEPT !.i = ioc, !.p = 1, !.pc = "en_call",
                !.results = {}, !.enrichOk = FALSE]

\* One provider, up to the DELETE: the adapter call (enrich_with_cache returns a
\* result, never raises), the normalization of first_seen/last_seen/raw_json, and
\* the dedupe DELETE.
\*   "ok"            all three succeed;
\*   "delete_raises" the DELETE raises and is swallowed (best-effort);
\*   "raises"        the normalization raises: the outer handler adds the error row
\*                   and records the error result, without DELETE and without commit.
EnrichCall(r, out) ==
    LET rec == run[r] IN
    /\ rec.pc = "en_call"
    /\ out \in {"ok", "delete_raises", "raises"}
    /\ out # "ok" => (faults < MaxFaults /\ Cnt(rec.i, rec.p) < MaxDup)
    /\ faults' = IF out = "ok" THEN faults ELSE faults + 1
    /\ run' = [run EXCEPT ![r] =
                 CASE out = "ok" ->
                        [rec EXCEPT !.txDel = rec.txDel \cup DeleteMatched(rec.i, rec.p),
                                    !.pc = "en_commit"]
                   [] out = "delete_raises" ->
                        [rec EXCEPT !.pc = "en_commit"]
                   [] OTHER ->
                        NextProvider([rec EXCEPT
                            !.txIns = rec.txIns \cup {<<rec.i, rec.p>>},
                            !.results = rec.results \cup {rec.p}])]
    /\ UNCHANGED <<job, uploadExists, nIocs, rows, scores, starts, termWrites>>

\* db.add(enrichment_result) and the per-provider commit; on a raised commit
\* rollback() and continue with the next provider.
EnrichCommit(r, ok) ==
    LET rec == run[r]
        ins == rec.txIns \cup {<<rec.i, rec.p>>}
    IN
    /\ rec.pc = "en_commit"
    /\ Commit(r, ok, ins, rec.dirty)
    /\ run' = [run EXCEPT ![r] =
                 IF ok
                 THEN NextProvider(Clean([rec EXCEPT
                          !.results = rec.results \cup {rec.p}]))
                 ELSE NextProvider(Clean(rec))]
    /\ UNCHANGED <<uploadExists, nIocs, starts>>

\* The commit that ends enrich_ioc; when it raises, enrich_ioc raises to its caller
\* and the session is left as it is.
EnrichFinal(r, ok) ==
    LET rec == run[r] IN
    /\ rec.pc = "en_final"
    /\ Commit(r, ok, rec.txIns, rec.dirty)
    /\ run' = [run EXCEPT ![r] =
                 IF ok
                 THEN [Clean(rec) EXCEPT !.pc = AfterEnrich(rec.kind), !.enrichOk = TRUE]
                 ELSE IF rec.kind = "re_enrich"
                      THEN Ended(rec, "raised")
                      ELSE [rec EXCEPT !.pc = AfterEnrich(rec.kind), !.enrichOk = FALSE]]
    /\ UNCHANGED <<uploadExists, nIocs, starts>>

\* ---- POST /iocs/{ioc_id}/re-enrich ---------------------------------------
\* The scores are computed, the IOCScore is added, commit.
ReEnrichScore(r, ok) ==
    LET rec == run[r] IN
    /\ rec.pc = "re_score"
    /\ CommitScores(r, ok, rec.txIns, AddScore(rec.txScores, rec.i), rec.dirty)
    /\ run' = [run EXCEPT ![r] = Ended(rec, IF ok THEN "returned" ELSE "raised")]
    /\ UNCHANGED <<uploadExists, nIocs, starts>>

\* ---- EnrichmentPipeline.process_job --------------------------------------
\* The job is loaded, job.status = RUNNING, commit (outside the try block).
ProcessJobStart(r, ok) ==
    LET rec == run[r]
        d == [NoWrites EXCEPT !.status = RUNNING, !.started_at = "utcnow"]
    IN
    /\ rec.pc = "pj_start"
    /\ Commit(r, ok, {}, d)
    /\ run' = [run EXCEPT ![r] =
                 IF ok
                 THEN [rec EXCEPT !.pc = "pj_select",
                                  !.memProcessed = job.processed_iocs]
                 ELSE Ended(rec, "raised")]
    /\ UNCHANGED <<uploadExists, nIocs, starts>>

\* The upload's created_at is read, the IOCs are selected (none when the upload is
\* missing), job.total_iocs = len(iocs).
ProcessJobSelect(r) ==
    LET rec == run[r]
        n == IF uploadExists THEN nIocs ELSE 0
        sel == [rec EXCEPT !.n = n, !.noUpload = ~uploadExists,
                           !.successful = 0, !.failed = 0,
                           !.dirty = Merge(rec.dirty, [NoWrites EXCEPT !.total_iocs = n])]
    IN
    /\ rec.pc = "pj_select"
    /\ run' = [run EXCEPT ![r] =
                 IF n = 0 THEN [sel EXCEPT !.pc = "pj_done"] ELSE EnterEnrich(sel, 1)]
    /\ NoDb
    /\ UNCHANGED <<uploadExists, nIocs, starts>>

\* A progress update that leaves processed_iocs as it is.
ProcessJobProgressSkipped(rec) == rec.memProcessed

\* The value job.processed_iocs += 1 writes: the value held by the loaded object + 1.
ProcessJobProgressValue(rec) == rec.memProcessed + 1

\* After enrich_ioc returned or raised for one IOC: successful_iocs or failed_iocs
\* (locals) += 1, job.processed_iocs += 1, commit.  A raised commit leaves the loop
\* for the job-level handler.
ProcessJobProgress(r, ok) ==
    LET rec == run[r]
        v == ProcessJobProgressValue(rec)
        d == Merge(rec.dirty, [NoWrites EXCEPT !.processed_iocs = v])
        cnt == [rec EXCEPT
                  !.successful = IF rec.enrichOk THEN rec.successful + 1 ELSE rec.successful,
                  !.failed = IF rec.enrichOk THEN rec.failed ELSE rec.failed + 1,
                  !.memProcessed = v,
                  !.txScores = IF rec.enrichOk THEN AddScore(rec.txScores, rec.i)
                               ELSE rec.txScores,
                  !.dirty = d]
    IN
    /\ rec.pc = "pj_progress"
    /\ CommitScores(r, ok, rec.txIns, cnt.txScores, d)
    /\ run' = [run EXCEPT ![r] =
                 IF ok
                 THEN IF rec.i < rec.n
                      THEN EnterEnrich(Clean(cnt), rec.i + 1)
                      ELSE [Clean(cnt) EXCEPT !.pc = "pj_done", !.i = 0,
                                              !.results = {}, !.enrichOk = FALSE]
                 ELSE [cnt EXCEPT !.pc = "pj_error"]]
    /\ UNCHANGED <<uploadExists, nIocs, starts>>

\* The columns process_job writes when the loop has ended.
ProcessJobDoneWrites(rec) ==
    [NoWrites EXCEPT !.status = DONE, !.successful_iocs = rec.successful,
                     !.failed_iocs = rec.failed]

\* After the loop: status DONE with the counters, commit.
ProcessJobDone(r, ok) ==
    LET rec == run[r]
        d == Merge(rec.dirty, ProcessJobDoneWrites(rec))
    IN
    /\ rec.pc = "pj_done"
    /\ Commit(r, ok, rec.txIns, d)
    /\ run' = [run EXCEPT ![r] =
                 IF ok THEN Ended(rec, "returned")
                       ELSE [rec EXCEPT !.pc = "pj_error", !.dirty = d]]
    /\ UNCHANGED <<uploadExists, nIocs, starts>>

\* The job-level handler: status ERROR, error_message = str(e), commit; when this
\* commit raises, process_job raises.
ProcessJobError(r, ok) ==
    LET rec == run[r]
        d == Merge(rec.dirty,
                   [NoWrites EXCEPT !.status = ERROR, !.error_message = "exception"])
    IN
    /\ rec.pc = "pj_error"
    /\ Commit(r, ok, rec.txIns, d)
    /\ run' = [run EXCEPT ![r] = Ended(rec, IF ok THEN "returned" ELSE "raised")]
    /\ UNCHANGED <<uploadExists, nIocs, starts>>

\* ---- POST /jobs/{job_id}/enrich (start_enrichment) ------------------------
\* The job is loaded; unless it is running or done its status is set to QUEUED and
\* committed (request session).
StartEnrichmentQueue(r, ok) ==
    LET rec == run[r] IN
    /\ rec.pc = "se_queue"
    /\ IF job.status \notin {RUNNING, DONE}
       THEN Commit(r, ok, {}, [NoWrites EXCEPT !.status = QUEUED])
       ELSE ok /\ NoDb
    /\ run' = [run EXCEPT ![r] =
                 IF ok THEN [rec EXCEPT !.pc = "se_running"] ELSE Ended(rec, "raised")]
    /\ UNCHANGED <<uploadExists, nIocs, starts>>

\* The columns the endpoint's first UPDATE writes.
StartEnrichmentRunningWrites ==
    [NoWrites EXCEPT !.status = RUNNING, !.started_at = "utcnow", !.processed_iocs = 0,
                     !.successful_iocs = 0, !.failed_iocs = 0]

\* UPDATE jobs SET status=RUNNING, processed_iocs=0, ... in a new session, commit.
StartEnrichmentRunning(r, ok) ==
    LET rec == run[r] IN
    /\ rec.pc = "se_running"
    /\ Commit(r, ok, {}, StartEnrichmentRunningWrites)
    /\ run' = [run EXCEPT ![r] =
                 IF ok THEN [rec EXCEPT !.pc = "se_select"] ELSE Ended(rec, "raised")]
    /\ UNCHANGED <<uploadExists, nIocs, starts>>

\* The upload's created_at is read.  Missing: UPDATE status=ERROR,
\* error_message="Upload not found", commit, return.  Otherwise the IOCs are selected.
StartEnrichmentSelect(r, ok) ==
    LET rec == run[r]
        sel == [rec EXCEPT !.n = nIocs, !.successful = 0, !.failed = 0, !.processed = 0]
    IN
    /\ rec.pc = "se_select"
    /\ IF ~uploadExists
       THEN /\ Commit(r, ok, {}, [NoWrites EXCEPT !.status = ERROR,
                                                  !.error_message = "Upload not found"])
            /\ run' = [run EXCEPT ![r] =
                         Ended([rec EXCEPT !.noUpload = TRUE],
                               IF ok THEN "returned" ELSE "raised")]
       ELSE /\ ok
            /\ NoDb
            /\ run' = [run EXCEPT ![r] =
                         IF nIocs = 0 THEN [sel EXCEPT !.pc = "se_done"]
                                      ELSE EnterEnrich(sel, 1)]
    /\ UNCHANGED <<uploadExists, nIocs, starts>>

\* After enrich_ioc returned or raised for one IOC: successful or failed += 1, and in
\* the finally block processed += 1, UPDATE processed_iocs=processed, commit.  A
\* raised commit leaves the loop for the outer handler.
StartEnrichmentProgress(r, ok) ==
    LET rec == run[r]
        d == Merge(rec.dirty, [NoWrites EXCEPT !.processed_iocs = rec.processed + 1])
        cnt == [rec EXCEPT
                  !.successful = IF rec.enrichOk THEN rec.successful + 1 ELSE rec.successful,
                  !.failed = IF rec.enrichOk THEN rec.failed ELSE rec.failed + 1,
                  !.processed = rec.processed + 1,
                  !.txScores = IF rec.enrichOk THEN AddScore(rec.txScores, rec.i)
                               ELSE rec.txScores,
                  !.dirty = d]
    IN
    /\ rec.pc = "se_progress"
    /\ CommitScores(r, ok, rec.txIns, cnt.txScores, d)
    /\ run' = [run EXCEPT ![r] =
                 IF ok
                 THEN IF rec.i < rec.n
                      THEN EnterEnrich(Clean(cnt), rec.i + 1)
                      ELSE [Clean(cnt) EXCEPT !.pc = "se_done", !.i = 0,
                                              !.results = {}, !.enrichOk = FALSE]
                 ELSE [cnt EXCEPT !.pc = "se_error"]]
    /\ UNCHANGED <<uploadExists, nIocs, starts>>

\* The columns the endpoint's last UPDATE writes.
StartEnrichmentDoneWrites(rec) ==
    [status |-> DONE, total_iocs |-> rec.n, processed_iocs |-> -1,
     successful_iocs |-> rec.successful, failed_iocs |-> rec.failed,
     error_message |-> "null", started_at |-> "-"]

\* After the loop: UPDATE status=DONE, total_iocs=len(iocs), the counters, commit.
StartEnrichmentDone(r, ok) ==
    LET rec == run[r]
        d == Merge(rec.dirty, StartEnrichmentDoneWrites(rec))
    IN
    /\ rec.pc = "se_done"
    /\ Commit(r, ok, rec.txIns, d)
    /\ run' = [run EXCEPT ![r] =
                 IF ok THEN Ended(rec, "returned")
                       ELSE [rec EXCEPT !.pc = "se_error", !.dirty = d]]
    /\ UNCHANGED <<uploadExists, nIocs, starts>>

\* The outer handler: UPDATE status=ERROR, error_message=str(e), commit; when this
\* commit raises, the endpoint raises.
StartEnrichmentError(r, ok) ==
    LET rec == run[r]
        d == Merge(rec.dirty,
                   [NoWrites EXCEPT !.status = ERROR, !.error_message = "exception"])
    IN
    /\ rec.pc = "se_error"
    /\ Commit(r, ok, rec.txIns, d)
    /\ run' = [run EXCEPT ![r] = Ended(rec, IF ok THEN "returned" ELSE "raised")]
    /\ UNCHANGED <<uploadExists, nIocs, starts>>

\* ---- BaseAdapter: cache administration and the clock -------------------------
Max2(a, b) == IF a >= b THEN a ELSE b
Min2(a, b) == IF a <= b THEN a ELSE b

\* A sanitizer without the lower bound.
SanitizeWithoutFloor(x) == Min2(7 * 24 * 60 * 60, x)

\* max(60, min(7 * 24 * 60 * 60, int(positive_ttl_seconds)))
SanitizePositive(x) == Max2(60, Min2(7 * 24 * 60 * 60, x))

\* max(30, min(24 * 60 * 60, int(negative_ttl_seconds)))
SanitizeNegative(x) == Max2(30, Min2(24 * 60 * 60, x))

\* Arguments of POST /cache/ttl that are tried: around the ends of both ranges.
TtlArgs == {-1, 0, 29, 30, 31, 59, 60, 61, 86399, 86400, 86401, 604799, 604800, 604801}

\* Arguments that give TTLs short enough for entries to expire before MaxTime.
ShortTtlArgs == {0, 45}

\* The class-wide TTLs are read when a pipeline constructs its adapters, which
\* enrich_ioc's callers do before they call it.  POST /cache/ttl arrives between
\* two passes or while a pass is under way; the adapters read their own copy at the
\* cache write only, so a call during a pass is placed right before a write.
TtlsObserved == call.pc \in {"idle", "write", "failed"}

\* A set_cache_ttls that also moves the expiry of the entries it finds.
set_cache_ttls_rewriting(positive_ttl_seconds, negative_ttl_seconds) ==
    /\ admin.n < MaxAdmin
    /\ TtlsObserved
    /\ ttl' = [positive |-> SanitizePositive(positive_ttl_seconds),
               negative |-> SanitizeNegative(negative_ttl_seconds)]
    /\ admin' = [n |-> admin.n + 1, positive |-> positive_ttl_seconds,
                 negative |-> negative_ttl_seconds]
    /\ cache' = [k \in DOMAIN cache |->
                    [cache[k] EXCEPT !.expires_at = now + ttl'.negative]]
    /\ UNCHANGED <<now, call>>

\* BaseAdapter.set_cache_ttls (POST /cache/ttl): the class-wide TTLs are replaced by
\* the sanitized arguments; nothing else is touched.
set_cache_ttls(positive_ttl_seconds, negative_ttl_seconds) ==
    /\ admin.n < MaxAdmin
    /\ TtlsObserved
    /\ ttl' = [positive |-> SanitizePositive(positive_ttl_seconds),
               negative |-> SanitizeNegative(negative_ttl_seconds)]
    /\ admin' = [n |-> admin.n + 1, positive |-> positive_ttl_seconds,
                 negative |-> negative_ttl_seconds]
    /\ UNCHANGED <<cache, now, call>>

\* BaseAdapter.clear_cache (POST /cache/clear): every entry is removed.  The cache
\* is read by the lookup only, so the call is placed right before a lookup.
clear_cache ==
    /\ admin.n < MaxAdmin
    /\ call.pc = "lookup"
    /\ DOMAIN cache # {}
    /\ cache' = <<>>
    /\ admin' = [admin EXCEPT !.n = admin.n + 1]
    /\ UNCHANGED <<now, ttl, call>>

\* Time passes.  time.time() is read by _get_cached_result and by _cache_result, so
\* the clock is advanced right before these.
Tick ==
    /\ now < MaxTime
    /\ call.pc \in {"lookup", "write", "failed"}
    /\ now' = now + TickStep
    /\ UNCHANGED <<cache, ttl, call, admin>>

\* ---- BaseAdapter.enrich_with_cache ------------------------------------------
Provider == AdapterOrder[call.p]
Key == CacheKey(Provider, call.ioc)

\* enrich_ioc starts its loop over the adapters of a pipeline whose adapters took
\* the class-wide TTLs when they were constructed.  The passes of one behaviour are
\* over one IOC: the keys of another IOC are other entries of the cache.
StartEnrichIoc(ioc) ==
    /\ call.pc = "idle"
    /\ call.calls < MaxCalls
    /\ call.calls = 0 \/ ioc = call.ioc
    /\ call' = [NoCall EXCEPT !.pc = "lookup", !.p = 1, !.ioc = ioc,
                              !.ttl_positive = ttl.positive,
                              !.ttl_negative = ttl.negative,
                              !.calls = call.calls + 1]
    /\ UNCHANGED <<cache, now, ttl, admin>>

\* _get_cached_result and "if cached_result: return cached_result".
GetCachedResult ==
    LET fresh == CacheFresh(cache, Key, now) IN
    /\ call.pc = "lookup"
    /\ cache' = IF Key \in DOMAIN cache /\ ~fresh THEN CachePop(cache, Key) ELSE cache
    /\ call' = IF fresh
               THEN [call EXCEPT !.pc = "returned", !.hit = TRUE,
                                 !.result = cache[Key].payload]
               ELSE [call EXCEPT !.pc = "enrich"]
    /\ UNCHANGED <<now, ttl, admin>>

\* Every result cached with the positive TTL.
TtlAlwaysPositive(result) == call.ttl_positive

\* The TTL enrich_with_cache passes to _cache_result for a result.
TtlFor(result) ==
    IF result.verdict # "unknown" THEN call.ttl_positive ELSE call.ttl_negative

\* enrich_with_cache returns result; the locals of enrich are gone.
Returning(result) ==
    [NoCall EXCEPT !.pc = "returned", !.p = call.p, !.ioc = call.ioc,
                   !.ttl_positive = call.ttl_positive,
                   !.ttl_negative = call.ttl_negative,
                   !.calls = call.calls, !.result = result]

\* A result is cached with the TTL chosen for it and returned.
CacheResult ==
    /\ call.pc = "write"
    /\ cache' = CachePut(cache, Key, now + TtlFor(call.result), call.result)
    /\ call' = Returning(call.result)
    /\ UNCHANGED <<now, ttl, admin>>

\* An error result that carries no status.
ErrorResultWithoutStatus == Payload("unknown", 0, "Error: ")

\* error_result of the except branch.
ErrorResult == Payload("unknown", 500, "Error: ")

\* An except branch that lets the exception of enrich go on to the caller.
ReraiseError ==
    /\ call.pc = "failed"
    /\ call' = [call EXCEPT !.pc = "raised"]
    /\ UNCHANGED <<cache, now, ttl, admin>>

\* enrich raised: the error result is synthesized, cached with the negative TTL
\* and returned.
CacheErrorResult ==
    /\ call.pc = "failed"
    /\ cache' = CachePut(cache, Key, now + call.ttl_negative, ErrorResult)
    /\ call' = Returning(ErrorResult)
    /\ UNCHANGED <<now, ttl, admin>>

\* enrich_with_cache has returned to enrich_ioc, which goes on to the next adapter
\* or leaves its loop.
NextAdapter ==
    /\ call.pc = "returned"
    /\ call' = IF call.p < Len(AdapterOrder)
               THEN [NoCall EXCEPT !.pc = "lookup", !.p = call.p + 1,
                                   !.ioc = call.ioc,
                                   !.ttl_positive = call.ttl_positive,
                                   !.ttl_negative = call.ttl_negative,
                                   !.calls = call.calls]
               ELSE [NoCall EXCEPT !.ioc = call.ioc, !.calls = call.calls]
    /\ UNCHANGED <<cache, now, ttl, admin>>

\* ---- BaseAdapter._make_request -----------------------------------------------
\* HTTP status codes an upstream answers with.
Statuses == {200, 404, 503}

\* A loop that goes round once more than range(self.max_retries).
OneMoreAttempt(attempts) == attempts < max_retries

\* for attempt in range(self.max_retries): another iteration follows.
MoreAttempts(attempts) == attempts + 1 < max_retries

\* time.time() % 1 in milliseconds: the fraction of the second the clock shows.
Jitters == {0, 999}

\* A backoff that grows by one second per attempt.
LinearBackoff(attempt) == (attempt + 1) * 1000

\* 2 ** attempt seconds, in milliseconds.
Backoff(attempt) == (2 ^ attempt) * 1000

\* One attempt of the retry loop.  A response of any status is returned.  After
\* httpx.TimeoutException or httpx.RequestError the loop sleeps for the backoff
\* plus the jitter and tries again, and after the last attempt raises
\* RequestError("Max retries exceeded") without a sleep.  Any other exception
\* leaves the loop at once.  delay is a local of the call.
MakeRequestAttempt(outcome, status, jitter) ==
    /\ call.pc = "request"
    /\ outcome \in {"response", "timeout", "request_error", "other_exception"}
    /\ status \in Statuses
    /\ jitter \in Jitters
    /\ call' =
         CASE outcome = "response" ->
                [call EXCEPT !.attempts = call.attempts + 1, !.status = status,
                             !.delay = 0, !.pc = "response"]
           [] outcome = "other_exception" ->
                [call EXCEPT !.attempts = call.attempts + 1, !.signal = "other",
                             !.delay = 0, !.pc = "failed"]
           [] OTHER ->
                IF MoreAttempts(call.attempts)
                THEN [call EXCEPT !.attempts = call.attempts + 1,
                                  !.transport = call.transport + 1,
                                  !.sleeps = call.sleeps + 1,
                                  !.delay = Backoff(call.attempts) + jitter]
                ELSE [call EXCEPT !.attempts = call.attempts + 1,
                                  !.transport = call.transport + 1, !.delay = 0,
                                  !.signal = "transport_failure", !.pc = "failed"]
    /\ UNCHANGED <<cache, now, ttl, admin>>

\* ---- VirusTotalAdapter.enrich -----------------------------------------------
Verdicts == {"malicious", "suspicious", "benign", "unknown"}

\* No API key: an unknown result without a request; otherwise the request is made.
VirusTotalEnrich(configured) ==
    /\ call.pc = "enrich"
    /\ Provider = "virustotal"
    /\ call' = IF configured
               THEN [call EXCEPT !.pc = "request"]
               ELSE [call EXCEPT !.pc = "write",
                                 !.result = Payload("unknown", 0, "API key not configured")]
    /\ UNCHANGED <<cache, now, ttl, admin>>

\* The response is turned into a result: 200 gives the verdict of the analysis
\* stats, malicious, suspicious or benign (or the parsing raises), 404 "Not found
\* in VirusTotal", any other status "API error: <status>" with that status.  The
\* relationship lookup of the 200 branch only adds to the evidence text and
\* swallows its own exceptions, so it is not a step of its own.
VirusTotalResponse(verdict, parses) ==
    /\ call.pc = "response"
    /\ Provider = "virustotal"
    /\ verdict \in Verdicts \ {"unknown"}
    /\ call' =
         CASE call.status = 200 /\ parses ->
                [call EXCEPT !.pc = "write", !.result = Payload(verdict, 200, "detections")]
           [] call.status = 200 /\ ~parses ->
                [call EXCEPT !.pc = "failed", !.signal = "other"]
           [] call.status = 404 ->
                [call EXCEPT !.pc = "write",
                             !.result = Payload("unknown", 404, "Not found in VirusTotal")]
           [] OTHER ->
                [call EXCEPT !.pc = "write",
                             !.result = Payload("unknown", call.status, "API error")]
    /\ UNCHANGED <<cache, now, ttl, admin>>

\* ---- URLScanAdapter.enrich --------------------------------------------------
max_wait_time == 60
wait_interval == 5

\* No API key, or a type other than url and domain: an unknown result without a
\* request; otherwise the search for existing results follows.
URLScanEnrich(configured) ==
    /\ call.pc = "enrich"
    /\ Provider = "urlscan"
    /\ call' =
         CASE ~configured ->
                [call EXCEPT !.pc = "write",
                             !.result = Payload("unknown", 0, "API key not configured")]
           [] call.ioc[1] \notin {"url", "domain"} ->
                [call EXCEPT !.pc = "write",
                             !.result = Payload("unknown", 0, "Unsupported IOC type")]
           [] OTHER -> [call EXCEPT !.pc = "us_search"]
    /\ UNCHANGED <<cache, now, ttl, admin>>

\* _search_existing: a prior result (whose verdict _extract_verdict gives) or None,
\* also when the search request fails; a result the extractors cannot read raises.
URLScanSearch(found) ==
    /\ call.pc = "us_search"
    /\ found \in {"malicious", "suspicious", "benign", "none", "raises"}
    /\ call' = CASE found = "none" -> [call EXCEPT !.pc = "us_submit"]
                 [] found = "raises" -> [call EXCEPT !.pc = "failed", !.signal = "other"]
                 [] OTHER -> [call EXCEPT !.pc = "write",
                                          !.result = Payload(found, 200, "evidence")]
    /\ UNCHANGED <<cache, now, ttl, admin>>

\* _submit_scan: POST {base_url}/scan/; a scan id, or None ("Failed to submit scan").
URLScanSubmit(accepted) ==
    /\ call.pc = "us_submit"
    /\ call' = IF accepted
               THEN [call EXCEPT !.posts = call.posts + 1, !.pc = "us_poll", !.waited = 0]
               ELSE [call EXCEPT !.posts = call.posts + 1, !.pc = "write",
                                 !.result = Payload("unknown", 500, "Failed to submit scan")]
    /\ UNCHANGED <<cache, now, ttl, admin>>

\* One round of the polling loop: sleep, waited += wait_interval, _get_scan_result;
\* a result ends the loop, and so does waited reaching max_wait_time ("Scan timeout");
\* a result the extractors cannot read raises.
URLScanPoll(result) ==
    LET waited == call.waited + wait_interval IN
    /\ call.pc = "us_poll"
    /\ result \in {"malicious", "suspicious", "benign", "none", "raises"}
    /\ call' =
         CASE result = "raises" ->
                [call EXCEPT !.waited = waited, !.pc = "failed", !.signal = "other"]
           [] result # "none" ->
                [call EXCEPT !.waited = waited, !.pc = "write",
                             !.result = Payload(result, 200, "evidence")]
           [] waited < max_wait_time -> [call EXCEPT !.waited = waited]
           [] OTHER ->
                [call EXCEPT !.waited = waited, !.pc = "write",
                             !.result = Payload("unknown", 408, "Scan timeout")]
    /\ UNCHANGED <<cache, now, ttl, admin>>

\* ---- EnrichmentPipeline.calculate_risk_score ------------------------------
\* The first loop: 15 and one agreement for malicious, 5 and one agreement for
\* suspicious, nothing for any other verdict.
RECURSIVE VerdictLoop(_, _)
VerdictLoop(m, acc) ==
    IF m = <<>> THEN acc
    ELSE LET verdict == Head(m).verdict IN
         VerdictLoop(Tail(m),
             CASE verdict = "malicious" ->
                    [score |-> acc.score + 15,
                     provider_agreement |-> acc.provider_agreement + 1]
               [] verdict = "suspicious" ->
                    [score |-> acc.score + 5,
                     provider_agreement |-> acc.provider_agreement + 1]
               [] OTHER -> acc)

\* One round of the second loop.  The value has to be present and a string (a
\* number is passed over) that fromisoformat reads; the datetime read is compared with the naive
\* datetime.utcnow() - timedelta(days=7), which raises TypeError for an aware
\* datetime, and the except clause passes over the result.
LastSeenRecent(last_seen) ==
    /\ last_seen.kind = "naive"
    /\ last_seen.age < 7

\* The second loop stops at the first result that qualifies.
RECURSIVE RecentLoop(_)
RecentLoop(m) ==
    IF m = <<>> THEN FALSE
    ELSE IF LastSeenRecent(Head(m).last_seen) THEN TRUE
    ELSE RecentLoop(Tail(m))

\* A third loop that looks at the first provider only.
LinkedFirstOnly(m) ==
    m # <<>> /\ (Head(m).actor # None \/ Head(m).family # None)

\* The third loop stops at the first result with an actor or a family.
RECURSIVE LinkedLoop(_)
LinkedLoop(m) ==
    IF m = <<>> THEN FALSE
    ELSE IF Head(m).actor # None \/ Head(m).family # None THEN TRUE
    ELSE LinkedLoop(Tail(m))

\* A score that is returned as it was added up.
Uncapped(score) == score

\* min(100, score)
CapAt100(score) == Min2(100, score)

calculate_risk_score(m) ==
    LET first == VerdictLoop(m, [score |-> 0, provider_agreement |-> 0]) IN
    CapAt100(first.score
             + (IF first.provider_agreement >= 3 THEN 10 ELSE 0)
             + (IF RecentLoop(m) THEN 10 ELSE 0)
             + (IF LinkedLoop(m) THEN 10 ELSE 0))

\* ---- EnrichmentPipeline.calculate_attribution_score -----------------------
\* The sets the loop collects: the actors and the families that are not empty.
RECURSIVE ActorsOf(_)
ActorsOf(m) ==
    IF m = <<>> THEN {}
    ELSE (IF Head(m).actor # None THEN {Head(m).actor} ELSE {}) \cup ActorsOf(Tail(m))

RECURSIVE FamiliesOf(_)
FamiliesOf(m) ==
    IF m = <<>> THEN {}
    ELSE (IF Head(m).family # None THEN {Head(m).family} ELSE {}) \cup FamiliesOf(Tail(m))

\* A bonus that asks for several actors and several families.
MultipleSourcesBoth(actors, families) ==
    Cardinality(actors) > 1 /\ Cardinality(families) > 1

\* len(actors) > 1 or len(families) > 1
MultipleSources(actors, families) ==
    Cardinality(actors) > 1 \/ Cardinality(families) > 1

calculate_attribution_score(m) ==
    LET actors == ActorsOf(m)
        families == FamiliesOf(m)
    IN CapAt100((IF actors # {} THEN 40 ELSE 0)
                + (IF families # {} THEN 30 ELSE 0)
                + (IF MultipleSources(actors, families) THEN 20 ELSE 0))

\* ---- EnrichmentPipeline.get_risk_band -------------------------------------
\* Bands whose upper ends are one lower.
get_risk_band_early(risk_score) ==
    IF risk_score <= 23 THEN "Low"
    ELSE IF risk_score <= 48 THEN "Medium"
    ELSE IF risk_score <= 73 THEN "High"
    ELSE "Critical"

get_risk_band(risk_score) ==
    IF risk_score <= 24 THEN "Low"
    ELSE IF risk_score <= 49 THEN "Medium"
    ELSE IF risk_score <= 74 THEN "High"
    ELSE "Critical"

\* ---- the scorer at work ----------------------------------------------------
\* enrich_ioc: results[provider_name] = enrichment_data, one provider after the
\* other, at most one result per adapter.
AddResult(u) ==
    /\ scoring.row = NoScore
    /\ Len(scoring.results) < NumAdapters
    /\ u \in ResultSet
    /\ scoring' = [scoring EXCEPT !.results = Append(scoring.results, u)]
    /\ UNCHANGED <<avars, pvars, cvars, uvars, kvars>>

\* The callers of enrich_ioc (process_job, POST /jobs/{job_id}/enrich, POST
\* /iocs/{ioc_id}/re-enrich) compute the two scores and the band of the risk
\* score, and add the IOCScore row made of them.
ScoreIoc(by) ==
    LET risk_score == calculate_risk_score(scoring.results)
        attribution_score == calculate_attribution_score(scoring.results)
        risk_band == get_risk_band(risk_score)
    IN
    /\ scoring.row = NoScore
    /\ by \in {"process_job", "start_enrichment", "re_enrich_ioc"}
    /\ scoring' = [scoring EXCEPT
                      !.row = Score(by, risk_score, attribution_score, risk_band)]
    /\ UNCHANGED <<avars, pvars, cvars, uvars, kvars>>

\* get_risk_band called with a score of its own (test_risk_band_calculation).
RiskBandOf(risk_score) ==
    /\ scoring.row = NoScore
    /\ scoring.results = <<>>
    /\ risk_score \in 0..100
    /\ scoring' = [scoring EXCEPT
                      !.row = Score("get_risk_band", risk_score, 0,
                                    get_risk_band(risk_score))]
    /\ UNCHANGED <<avars, pvars, cvars, uvars, kvars>>

\* ---- enrich of the adapters that need a credential -------------------------
\* __init__ reads the settings and logs a warning when a credential is missing.
ConstructAdapter(name, settings) ==
    /\ adapter.pc = "none"
    /\ name \in KeyedAdapters
    /\ settings \subseteq CredentialsOf(name)
    /\ adapter' = [NoAdapter EXCEPT !.pc = "constructed", !.name = name,
                                    !.settings = settings]
    /\ UNCHANGED <<avars, pvars, svars, uvars, kvars>>

\* OSINTAdapter() and ForensicAdapter(): nothing is read from the settings.
ConstructKeyless(name) ==
    /\ adapter.pc = "none"
    /\ name \in KeylessAdapters
    /\ adapter' = [NoAdapter EXCEPT !.pc = "constructed", !.name = name]
    /\ UNCHANGED <<avars, pvars, svars, uvars, kvars>>

\* The evidence of the result returned when the credential is missing.
MissingCredentialEvidence(name) ==
    IF name = "crowdstrike" THEN "API credentials not configured"
    ELSE "API key not configured"

\* The IOC types an adapter sends upstream.  VirusTotal falls back to the files
\* endpoint for any other type.
SupportedTypes(name) ==
    CASE name = "virustotal" -> IocTypes
      [] name \in {"urlscan", "osint"} -> {"url", "domain"}
      [] name = "forensic" -> {"domain", "ipv4"}
      [] OTHER -> {"url", "domain", "ipv4", "sha256", "md5", "email"}

\* The evidence of the result returned for a type the adapter does not take.
UnsupportedTypeEvidence(name) ==
    IF name = "forensic" THEN "Unsupported type for forensic"
    ELSE "Unsupported IOC type"

\* enrich up to its first request: the credential check, then (except for
\* VirusTotal) the IOC type check.  CrowdStrike asks for its access token before
\* it looks at the type.
AdapterEnrich(ioc_type) ==
    /\ adapter.pc = "constructed"
    /\ ioc_type \in IocTypes
    /\ adapter' =
         CASE adapter.settings # CredentialsOf(adapter.name) ->
                [adapter EXCEPT !.pc = "returned", !.ioc_type = ioc_type,
                    !.result = Payload("unknown", NoHttpStatus,
                                       MissingCredentialEvidence(adapter.name))]
           [] adapter.name = "crowdstrike" ->
                [adapter EXCEPT !.pc = "token", !.ioc_type = ioc_type, !.requests = 1]
           [] ioc_type \notin SupportedTypes(adapter.name) ->
                [adapter EXCEPT !.pc = "returned", !.ioc_type = ioc_type,
                    !.result = Payload("unknown", NoHttpStatus,
                                       UnsupportedTypeEvidence(adapter.name))]
           [] OTHER ->
                [adapter EXCEPT !.pc = "upstream", !.ioc_type = ioc_type, !.requests = 1]
    /\ UNCHANGED <<avars, pvars, svars, uvars, kvars>>

\* CrowdStrike: the token request gave a token or not, then the IOC type check.
CrowdStrikeToken(granted) ==
    /\ adapter.pc = "token"
    /\ adapter' =
         CASE ~granted ->
                [adapter EXCEPT !.pc = "returned",
                    !.result = Payload("unknown", 401, "Failed to obtain access token")]
           [] adapter.ioc_type \notin SupportedTypes(adapter.name) ->
                [adapter EXCEPT !.pc = "returned",
                    !.result = Payload("unknown", NoHttpStatus,
                                       UnsupportedTypeEvidence(adapter.name))]
           [] OTHER -> [adapter EXCEPT !.pc = "upstream", !.requests = 2]
    /\ UNCHANGED <<avars, pvars, svars, uvars, kvars>>

\* str.lower() on the textual levels above.
Lower(text) == IF text = "High" THEN "high" ELSE text

\* A _normalize_verdict that hands an unlisted value on as it is.
normalize_verdict_passthrough(raw_verdict) ==
    LET v == Lower(raw_verdict) IN
    CASE v \in {"malicious", "high", "dangerous", "threat"} -> "malicious"
      [] v \in {"suspicious", "medium", "warning"} -> "suspicious"
      [] v \in {"benign", "clean", "safe", "low"} -> "benign"
      [] OTHER -> v

\* BaseAdapter._normalize_verdict
normalize_verdict(raw_verdict) ==
    LET v == Lower(raw_verdict) IN
    CASE v \in {"malicious", "high", "dangerous", "threat"} -> "malicious"
      [] v \in {"suspicious", "medium", "warning"} -> "suspicious"
      [] v \in {"benign", "clean", "safe", "low"} -> "benign"
      [] OTHER -> "unknown"

\* _extract_verdict of the Flashpoint and the Recorded Future adapter.
RiskScoreVerdict(risk_score) ==
    IF risk_score >= 80 THEN "malicious"
    ELSE IF risk_score >= 40 THEN "suspicious"
    ELSE "benign"

\* CrowdStrikeAdapter._extract_verdict: malicious_confidence, then the labels.
CrowdStrikeVerdict(raw) ==
    LET conf == IF raw.text = None THEN "" ELSE Lower(raw.text) IN
    CASE conf \in {"high", "very-high", "critical"} -> "malicious"
      [] conf \in {"medium", "moderate"} -> "suspicious"
      [] raw.label = "malware" -> "malicious"
      [] raw.label = "suspicious-site" -> "suspicious"
      [] OTHER -> "benign"

\* VirusTotal's last_analysis_stats and URLScan's verdict flags: malicious
\* first, then suspicious, else benign.
StatsVerdict(raw) ==
    IF raw.score > 0 THEN "malicious"
    ELSE IF raw.hits THEN "suspicious"
    ELSE "benign"

\* The verdict an adapter's enrich puts in its result for a response.  OSINT: the
\* verdict follows the HTTP status of the page.  Flashpoint: a textual score or
\* severity is normalized, anything else is read as a risk score.
UpstreamVerdict(name, raw, status) ==
    CASE name = "osint" ->
             IF status >= 400 THEN "suspicious"
             ELSE IF status = 200 THEN "benign"
             ELSE "unknown"
      [] name = "forensic" -> "unknown"
      [] status # 200 -> "unknown"
      [] name \in {"virustotal", "urlscan"} -> StatsVerdict(raw)
      [] name = "crowdstrike" -> CrowdStrikeVerdict(raw)
      [] name = "flashpoint" ->
             IF raw.text # None THEN normalize_verdict(raw.text)
             ELSE RiskScoreVerdict(raw.score)
      [] OTHER -> RiskScoreVerdict(raw.score)

\* The upstream has been asked: enrich returns a result built from the response
\* (the verdict read from it, with the status of the response) or raises.
AdapterUpstream(raw, status, raises) ==
    /\ adapter.pc = "upstream"
    /\ raw \in RawResponses
    /\ status \in Statuses
    /\ adapter' =
         IF raises THEN [adapter EXCEPT !.pc = "raised", !.raw = raw]
         ELSE [adapter EXCEPT !.pc = "returned", !.raw = raw,
                  !.result = Payload(UpstreamVerdict(adapter.name, raw, status),
                                     status, "evidence")]
    /\ UNCHANGED <<avars, pvars, svars, uvars, kvars>>

\* enrich_with_cache after enrich: the result, or the error result when enrich
\* raised, is put in the cache and returned; enrich_ioc stores its verdict in the
\* EnrichmentResult row and puts it in the map it returns.
DeliverResult ==
    LET result == IF adapter.pc = "raised" THEN ErrorResult ELSE adapter.result IN
    /\ adapter.pc \in {"returned", "raised"}
    /\ adapter.row = "-"
    /\ adapter' = [adapter EXCEPT !.cached = result, !.enrichment_data = result,
                                  !.row = result.verdict]
    /\ UNCHANGED <<avars, pvars, svars, uvars, kvars>>

\* ---- upload_csv: create or update the IOC of a row --------------------------
\* One upload with a valid row for the (value, type, source_platform): the upload
\* row gets its created_at, then the IOC is updated when it exists and created
\* otherwise, and the commit.
UploadRow(created_at, first_seen, last_seen) ==
    LET parsed_first_seen == parse_dt(first_seen)
        parsed_last_seen == parse_dt(last_seen)
    IN
    /\ created_at \in (stored.created_at + 1)..MaxUploadTime
    /\ first_seen \in CsvTimes
    /\ last_seen \in CsvTimes
    /\ stored' =
         IF stored.exists
         THEN [stored EXCEPT
                 !.first_seen = IF stored.first_seen # NoTime THEN stored.first_seen
                                ELSE IF parsed_first_seen # NoTime
                                     THEN parsed_first_seen
                                     ELSE created_at,
                 !.last_seen = created_at,
                 !.created_at = created_at]
         ELSE [exists |-> TRUE,
               first_seen |-> IF parsed_first_seen # NoTime THEN parsed_first_seen
                              ELSE created_at,
               last_seen |-> IF parsed_last_seen # NoTime THEN parsed_last_seen
                             ELSE created_at,
               created_at |-> created_at]
    /\ UNCHANGED <<avars, pvars, svars, cvars, kvars>>

\* ---- the cache shared by all adapters ----------------------------------------
\* _cache_result by the adapter of provider for ioc: the entry under the key is
\* replaced.  The entry is marked with the call that wrote it.
KeyedWrite(provider, ioc) ==
    /\ provider \in KeyProviders
    /\ ioc \in KeyIocs
    /\ shared' = [shared EXCEPT
                    !.cache = [k \in DOMAIN shared.cache \cup {CacheKey(provider, ioc)} |->
                                 IF k = CacheKey(provider, ioc) THEN <<provider, ioc>>
                                 ELSE shared.cache[k]]]
    /\ UNCHANGED <<avars, pvars, svars, cvars, uvars>>

\* _get_cached_result by the adapter of provider for ioc: the entry under the key,
\* when there is one.
KeyedLookup(provider, ioc) ==
    /\ provider \in KeyProviders
    /\ ioc \in KeyIocs
    /\ CacheKey(provider, ioc) \in DOMAIN shared.cache
    /\ shared' = [shared EXCEPT
                    !.hit = Hit(provider, ioc, shared.cache[CacheKey(provider, ioc)])]
    /\ UNCHANGED <<avars, pvars, svars, cvars, uvars>>

\* ---- specifications ------------------------------------------------------
\* One step of the handler that owns session r.
Step(r) ==
    \/ \E out \in {"ok", "delete_raises", "raises"} : EnrichCall(r, out)
    \/ \E ok \in BOOLEAN :
        \/ EnrichCommit(r, ok)
        \/ EnrichFinal(r, ok)
        \/ ReEnrichScore(r, ok)
        \/ ProcessJobStart(r, ok)
        \/ ProcessJobProgress(r, ok)
        \/ ProcessJobDone(r, ok)
        \/ ProcessJobError(r, ok)
        \/ StartEnrichmentQueue(r, ok)
        \/ StartEnrichmentRunning(r, ok)
        \/ StartEnrichmentSelect(r, ok)
        \/ StartEnrichmentProgress(r, ok)
        \/ StartEnrichmentDone(r, ok)
        \/ StartEnrichmentError(r, ok)
    \/ ProcessJobSelect(r)

Upload == \E rowsOk \in 0..MaxIocs, newIocs \in 0..MaxIocs, scheduled \in BOOLEAN :
              upload_csv(rowsOk, newIocs, scheduled)

Start(r) ==
    \/ StartProcessJob(r)
    \/ StartEnrichment(r)
    \/ \E ioc \in Iocs : StartReEnrich(r, ioc)

AllFree == \A q \in Runs : Free(q)

\* Runs one after the other: a run starts when no session is open.  (The adapter
\* layer is left as it is: the runs see it through the outcome of EnrichCall.)
Next ==
    /\ \/ Upload
       \/ LaterUpload
       \/ RemoveUpload
       \/ AllFree /\ Start(1)
       \/ \E r \in Runs : Step(r)
    /\ UNCHANGED <<avars, svars, cvars, uvars, kvars>>

Spec == Init /\ [][Next]_vars

\* Runs that overlap: up to MaxRuns sessions are open at the same time (the upload's
\* background task, a Celery worker, the two POST endpoints).
NextConc ==
    /\ \/ Upload
       \/ LaterUpload
       \/ RemoveUpload
       \/ \E r \in Runs : Start(r)
       \/ \E r \in Runs : Step(r)
    /\ UNCHANGED <<avars, svars, cvars, uvars, kvars>>

ConcSpec == Init /\ [][NextConc]_vars

\* The event loop resumes every handler whose awaited call has completed: the step
\* of a started run is taken as long as it stays possible.  Nothing obliges a
\* client or a worker to start another run.
FairSpec == Spec /\ WF_vars((\E r \in Runs : Step(r)) /\ UNCHANGED <<avars, svars, cvars, uvars, kvars>>)

\* One process_job run, started by the upload's background task, over a batch of
\* 1..MaxBatch IOCs.
UploadBatch == \E n \in 1..MaxBatch : upload_csv(n, n, TRUE)

JobStep ==
    \/ \E out \in {"ok", "delete_raises", "raises"} : EnrichCall(1, out)
    \/ \E ok \in BOOLEAN :
        \/ EnrichCommit(1, ok)
        \/ EnrichFinal(1, ok)
        \/ ProcessJobStart(1, ok)
        \/ ProcessJobProgress(1, ok)
        \/ ProcessJobDone(1, ok)
        \/ ProcessJobError(1, ok)
    \/ ProcessJobSelect(1)

JobNext ==
    /\ \/ UploadBatch
       \/ JobStep
    /\ UNCHANGED <<avars, svars, cvars, uvars, kvars>>

JobSpec == Init /\ [][JobNext]_vars

\* The adapter layer: enrich_ioc's passes over the adapters, one at a time, with the
\* clock and the cache administration endpoints.
AdapterNext ==
    /\ \/ \E ioc \in IocSet : StartEnrichIoc(ioc)
       \/ GetCachedResult
       \/ \E configured \in BOOLEAN : VirusTotalEnrich(configured)
       \/ \E outcome \in {"response", "timeout", "request_error", "other_exception"},
              status \in Statuses, jitter \in Jitters :
                  MakeRequestAttempt(outcome, status, jitter)
       \/ \E verdict \in Verdicts \ {"unknown"}, parses \in BOOLEAN :
              VirusTotalResponse(verdict, parses)
       \/ \E configured \in BOOLEAN : URLScanEnrich(configured)
       \/ \E found \in {"malicious", "suspicious", "benign", "none", "raises"} :
              URLScanSearch(found)
       \/ \E accepted \in BOOLEAN : URLScanSubmit(accepted)
       \/ \E result \in {"malicious", "suspicious", "benign", "none", "raises"} :
              URLScanPoll(result)
       \/ CacheResult
       \/ CacheErrorResult
       \/ NextAdapter
       \/ \E a, b \in ShortTtlArgs : set_cache_ttls(a, b)
       \/ clear_cache
       \/ Tick
    /\ UNCHANGED <<pvars, svars, cvars, uvars, kvars>>

AdapterSpec == Init /\ [][AdapterNext]_vars

\* POST /cache/ttl called with arguments around the ends of the ranges.
TtlNext ==
    /\ \E a, b \in TtlArgs : set_cache_ttls(a, b)
    /\ UNCHANGED <<pvars, svars, cvars, uvars, kvars>>

TtlSpec == Init /\ [][TtlNext]_vars

\* The scorer: the result map of one IOC is collected and scored.
ScoreNext ==
    \/ \E u \in ResultSet : AddResult(u)
    \/ \E by \in {"process_job", "start_enrichment", "re_enrich_ioc"} : ScoreIoc(by)
    \/ \E risk_score \in 0..100 : RiskBandOf(risk_score)

ScoreSpec == Init /\ [][ScoreNext]_vars

\* One adapter is constructed from the settings and its enrich is called once.
CredentialNext ==
    \/ \E name \in KeyedAdapters :
          \E settings \in SUBSET CredentialsOf(name) : ConstructAdapter(name, settings)
    \/ \E name \in KeylessAdapters : ConstructKeyless(name)
    \/ \E ioc_type \in IocTypes : AdapterEnrich(ioc_type)
    \/ \E granted \in BOOLEAN : CrowdStrikeToken(granted)
    \/ \E raw \in RawResponses, status \in Statuses, raises \in BOOLEAN :
          AdapterUpstream(raw, status, raises)
    \/ DeliverResult

CredentialSpec == Init /\ [][CredentialNext]_vars

\* Uploads that carry the same (value, type, source_platform), one after another.
UploadNext ==
    \E created_at \in 1..MaxUploadTime, first_seen \in CsvTimes, last_seen \in CsvTimes :
        UploadRow(created_at, first_seen, last_seen)

UploadSpec == Init /\ [][UploadNext]_vars

\* Writes and lookups by the adapters of all providers, in any order.
KeyNext ==
    \/ \E provider \in KeyProviders, ioc \in KeyIocs : KeyedWrite(provider, ioc)
    \/ \E provider \in KeyProviders, ioc \in KeyIocs : KeyedLookup(provider, ioc)

KeySpec == Init /\ [][KeyNext]_vars

\* ---- claims ----------------------------------------------------------------
\* C1: after any sequence of enrich_ioc calls, failed ones included, the committed
\* enrichment_results table holds at most one row for each (ioc_id, provider).
C1_AtMostOneRowPerPair == \A ioc \in Iocs, p \in Providers : Cnt(ioc, p) <= 1

\* enrich_ioc has returned to the handler of session r and the handler has not yet
\* gone on.
Returned(r) ==
    /\ run[r].pc \in {"pj_progress", "se_progress", "re_score"}
    /\ run[r].enrichOk

\* C2: when enrich_ioc(i) returns, the table holds exactly one row for (i.id, p)
\* for every provider p the call attempted; stated for the providers of the
\* results dict the call returns.
C2_ExactlyOneRowPerAttempted ==
    \A r \in Runs : Returned(r) => \A p \in run[r].results : Cnt(run[r].i, p) = 1

\* C3: when enrich_ioc calls on the same IOC overlap in separate sessions, no
\* observer of committed state sees two rows for a (ioc_id, provider) pair; stated
\* for the runs in which nothing raises.
C3_NoTwoRowsWhenOverlapping ==
    faults = 0 => \A ioc \in Iocs, p \in Providers : Cnt(ioc, p) <= 1

\* A run sets the status to RUNNING: process_job's first commit, the endpoint's
\* first UPDATE.
SetsRunning(r) ==
    \/ run[r].pc = "pj_start" /\ run'[r].pc = "pj_select"
    \/ run[r].pc = "se_running" /\ run'[r].pc = "se_select"

\* C4: every change of Job.status is queued->running, running->done or
\* running->error (after the creation as queued), and a run sets RUNNING only on a
\* job that is queued; stated for the runs in which nothing raises and the upload
\* exists.
C4_StatusStateMachine ==
    [][(faults' = 0 /\ uploadExists') =>
        /\ job'.status # job.status =>
              <<job.status, job'.status>> \in
                  {<<"none", QUEUED>>, <<QUEUED, RUNNING>>,
                   <<RUNNING, DONE>>, <<RUNNING, ERROR>>}
        /\ \A r \in Runs : SetsRunning(r) => job.status = QUEUED]_vars

\* C5: over any sequence of runs a terminal status (done or error) is written to
\* the job once and not again (that it is written at all is C9); stated for the
\* runs in which nothing raises and the upload exists.
C5_TerminalWrittenOnce == (faults = 0 /\ uploadExists) => termWrites <= 1

\* C6: in every committed state of the job, processed_iocs <= total_iocs; stated
\* for the runs in which nothing raises and the upload exists.
C6_ProcessedAtMostTotal ==
    (faults = 0 /\ uploadExists) => job.processed_iocs <= job.total_iocs

\* C7: whenever the committed status is done,
\* successful_iocs + failed_iocs = processed_iocs; stated for the runs in which
\* nothing raises and the upload exists.
C7_DoneCountersAddUp ==
    (faults = 0 /\ uploadExists /\ job.status = DONE)
        => job.successful_iocs + job.failed_iocs = job.processed_iocs

\* C8: the committed processed_iocs never decreases; stated for the runs in which
\* nothing raises and the upload exists.
C8_ProcessedMonotone ==
    [][(faults' = 0 /\ uploadExists') => job'.processed_iocs >= job.processed_iocs]_vars

\* C9: every job whose processing is started (a process_job or start_enrichment
\* run is under way) eventually reaches done or error, commits that raise included;
\* stated for the jobs whose upload exists.
C9_EventuallyTerminal ==
    (\E r \in Runs : Active(r) /\ run[r].kind \in {"process_job", "start_enrichment"})
        ~> (IsTerminal(job.status) \/ ~uploadExists)

\* C10: when the upload of the job is missing, a run that returns has left the job
\* with status error and error_message "Upload not found" (never done); stated for
\* the runs in which nothing raises.
C10_MissingUploadIsError ==
    \A r \in Runs :
        (faults = 0 /\ run[r].pc = "ended" /\ run[r].outcome = "returned"
            /\ run[r].noUpload)
            => (job.status = ERROR /\ job.error_message = "Upload not found")

C12_NoScanSubmission == call.posts = 0

\* C13: a second enrich_with_cache for the same key before the entry's TTL has
\* elapsed, with no clear_cache in between, returns the payload of the first and
\* makes no upstream call.  In three parts: the payload a call returns after an
\* upstream enrich is the payload it stored; a lookup that finds an entry whose
\* expires_at is ahead returns its payload, whatever its verdict, without going to
\* enrich; and an entry is changed or removed only by clear_cache, by a write for
\* its own key after a miss, or by the lookup that finds it expired.
C13_CacheRoundTrip ==
    [][/\ (call.pc \in {"write", "failed"} /\ call'.pc = "returned")
            => (Key \in DOMAIN cache' /\ cache'[Key].payload = call'.result)
       /\ (call.pc = "lookup" /\ call' # call
              /\ Key \in DOMAIN cache /\ now < cache[Key].expires_at)
            => /\ call'.pc = "returned"
               /\ call'.result = cache[Key].payload
               /\ cache' = cache
       /\ \A k \in DOMAIN cache :
            (k \notin DOMAIN cache' \/ cache'[k] # cache[k])
              => \/ cache' = <<>> /\ call' = call
                 \/ k = Key /\ call.pc \in {"write", "failed"}
                 \/ k = Key /\ call.pc = "lookup" /\ now >= cache[k].expires_at]_vars

\* A second pass is served the synthesized error result from the cache.
C13_Witness ==
    /\ call.pc = "returned"
    /\ call.hit
    /\ call.calls = 2
    /\ call.result = ErrorResult

\* C14: a lookup returns the stored payload only while expires_at > now; at or
\* after expires_at it removes the entry and reports a miss (the upstream enrich
\* follows); a payload returned from the cache is never an expired one.
C14_LookupHonoursExpiry ==
    [][/\ (call.pc = "lookup" /\ call' # call)
            => IF Key \in DOMAIN cache /\ cache[Key].expires_at > now
               THEN call'.pc = "returned" /\ call'.hit /\ cache' = cache
               ELSE /\ call'.pc = "enrich"
                    /\ ~call'.hit
                    /\ Key \notin DOMAIN cache'
                    /\ \A k \in DOMAIN cache \ {Key} :
                          k \in DOMAIN cache' /\ cache'[k] = cache[k]
       /\ (call'.pc = "returned" /\ call'.hit)
            => (Key \in DOMAIN cache' /\ cache'[Key].expires_at > now')]_vars

\* A lookup made exactly at expires_at has removed the entry and gone upstream.
C14_Witness ==
    /\ call.pc = "enrich"
    /\ call.calls = 2
    /\ now = TickStep
    /\ ttl.negative = 30
    /\ Key \notin DOMAIN cache

\* C15: every cache write of enrich_with_cache uses the adapter's positive TTL when
\* the verdict is malicious, suspicious or benign and its negative TTL when the
\* verdict is unknown, the synthesized error result included.
C15_TtlByVerdict ==
    [][(call.pc \in {"write", "failed"} /\ call'.pc = "returned")
        => /\ Key \in DOMAIN cache'
           /\ cache'[Key].payload.verdict \in Verdicts
           /\ cache'[Key].payload.verdict \in {"malicious", "suspicious", "benign"}
                => cache'[Key].expires_at = now + call.ttl_positive
           /\ cache'[Key].payload.verdict = "unknown"
                => cache'[Key].expires_at = now + call.ttl_negative]_vars

\* One pass has cached a malicious result and then an unknown one.
C15_Witness ==
    /\ call.pc = "returned"
    /\ ~call.hit
    /\ call.p = 2
    /\ call.result.verdict = "unknown"
    /\ \E k \in DOMAIN cache : cache[k].payload.verdict = "malicious"

\* C16: after set_cache_ttls(a, b) the positive TTL is in [60, 604800] and the
\* negative TTL in [30, 86400]: an argument inside the range is stored unchanged,
\* one below it gives the lower bound, one above it the upper bound.
C16_TtlsClamped ==
    admin.n > 0 =>
        /\ 60 <= ttl.positive /\ ttl.positive <= 604800
        /\ 30 <= ttl.negative /\ ttl.negative <= 86400
        /\ (60 <= admin.positive /\ admin.positive <= 604800)
              => ttl.positive = admin.positive
        /\ admin.positive < 60 => ttl.positive = 60
        /\ admin.positive > 604800 => ttl.positive = 604800
        /\ (30 <= admin.negative /\ admin.negative <= 86400)
              => ttl.negative = admin.negative
        /\ admin.negative < 30 => ttl.negative = 30
        /\ admin.negative > 86400 => ttl.negative = 86400

\* set_cache_ttls was called with a positive TTL below its range and a negative
\* TTL above its range.
C16_Witness ==
    /\ admin.n > 0
    /\ admin.positive = 59
    /\ admin.negative = 86401

\* C17: set_cache_ttls changes no cache entry: keys, payloads and expires_at are
\* the same after the call as before it.
C17_SetTtlsKeepsEntries ==
    [][(admin'.n # admin.n /\ TtlsObserved) => cache' = cache]_vars

\* The TTLs were lowered while the cache holds an entry written with a default TTL.
C17_Witness ==
    /\ admin.n > 0
    /\ ttl.positive = 60
    /\ \E k \in DOMAIN cache : cache[k].expires_at >= DEFAULT_TTL_NEGATIVE

\* C18: when the adapter's enrich raises, enrich_with_cache returns the result
\* {verdict unknown, http_status 500, evidence "Error: ..."}, stores it with the
\* negative TTL, and enrich_ioc goes on to the next adapter for the same IOC.
C18_EnrichErrorIsCachedAndPassed ==
    [][/\ (call.pc = "failed" /\ call' # call)
            => /\ call'.pc = "returned"
               /\ call'.result = Payload("unknown", 500, "Error: ")
               /\ Key \in DOMAIN cache'
               /\ cache'[Key] = [expires_at |-> now + call.ttl_negative,
                                 payload |-> Payload("unknown", 500, "Error: ")]
       /\ (call.pc = "returned" /\ call' # call /\ call.p < Len(AdapterOrder))
            => /\ call'.pc = "lookup"
               /\ call'.p = call.p + 1
               /\ call'.ioc = call.ioc]_vars

\* The first adapter's enrich raised and the orchestrator is at the second adapter.
C18_Witness ==
    /\ call.p = 2
    /\ call.pc = "enrich"
    /\ call.calls = 1
    /\ \E k \in DOMAIN cache : k[1] = "virustotal" /\ cache[k].payload = ErrorResult

\* C19: one _make_request makes at most 4 attempts; another attempt follows only a
\* timeout or transport error; the first attempt that yields a response ends the
\* call with that response (a 404 included); the transport failure is signalled
\* exactly when 4 attempts ended in a timeout or transport error.
C19_AtMostFourAttempts ==
    [][(call.pc = "request" /\ call' # call)
        => /\ call'.attempts = call.attempts + 1
           /\ call'.attempts <= 4
           /\ call'.pc = "request"
                => (call'.transport = call.transport + 1 /\ call'.attempts < 4)
           /\ call'.pc = "response"
                => (call'.transport = call.transport /\ call'.transport = call.attempts)
           /\ call'.signal = "transport_failure"
                <=> (call'.attempts = 4 /\ call'.transport = 4)]_vars

\* All four attempts ended in a timeout or transport error.
C19_Witness ==
    /\ call.pc = "failed"
    /\ call.signal = "transport_failure"
    /\ call.attempts = 4

\* C20: an attempt answered with an HTTP 5xx response is retried: the loop is left
\* with a 5xx response only when it was the fourth attempt.
C20_RetriesOn5xx ==
    (call.pc = "response" /\ call.status = 503) => call.attempts = max_retries

\* C21: within one enrich_ioc call a failure of provider p (adapter call,
\* normalization or commit) removes no row already committed for an earlier
\* provider of the same IOC; the rows recorded for p or for an earlier failed
\* provider are not lost when a later provider's commit fails; and the provider
\* whose commit fails is left out of the returned map while the loop goes on to
\* the remaining providers.
C21_ProviderFailuresIsolated ==
    [][\A r \in Runs :
        LET rec == run[r] IN
        (rec.pc \in {"en_call", "en_commit"} /\ run'[r] # rec /\ faults' = faults + 1)
          => /\ \A t \in rows : (t[1] = rec.i /\ t[2] < rec.p) => t \in rows'
             /\ rec.txIns \subseteq run'[r].txIns
             /\ rec.pc = "en_commit" => rec.p \notin run'[r].results
             /\ IF rec.p < MaxProviders
                THEN run'[r].pc \in {"en_call", "en_commit"} /\ run'[r].p >= rec.p
                ELSE run'[r].pc \in {"en_commit", "en_final"}]_vars

\* C22: calculate_risk_score returns min(100, 15 M + 5 S + 10 [M + S >= 3]
\* + 10 [some result has a last_seen within the last 7 days] + 10 [some result
\* has an actor or a family]), M and S being the numbers of malicious and of
\* suspicious results; the empty map scores 0.
C22_RiskScoreFormula ==
    LET m == scoring.results
        Is == 1..Len(m)
        M == Cardinality({i \in Is : m[i].verdict = "malicious"})
        S == Cardinality({i \in Is : m[i].verdict = "suspicious"})
        withinWeek == \E i \in Is : /\ m[i].last_seen.kind \in {"naive", "aware"}
                                   /\ m[i].last_seen.age < 7
        linked == \E i \in Is : m[i].actor # None \/ m[i].family # None
        sum == 15 * M + 5 * S
               + (IF M + S >= 3 THEN 10 ELSE 0)
               + (IF withinWeek THEN 10 ELSE 0)
               + (IF linked THEN 10 ELSE 0)
    IN scoring.row.by \in {"process_job", "start_enrichment", "re_enrich_ioc"}
        => /\ scoring.row.risk_score = (IF sum > 100 THEN 100 ELSE sum)
           /\ m = <<>> => scoring.row.risk_score = 0

\* C23: a map of exactly two malicious results with no actor, no family and no
\* last_seen gets the 10-point multiple-provider bonus and scores 15 + 15 + 10 = 40.
C23_TwoMaliciousScore40 ==
    (/\ scoring.row.by \in {"process_job", "start_enrichment", "re_enrich_ioc"}
     /\ scoring.results = <<Result("malicious", None, None, NoLastSeen),
                            Result("malicious", None, None, NoLastSeen)>>)
      => scoring.row.risk_score = 40

C25_SameActorTwiceScore90 ==
    (/\ scoring.row.by \in {"process_job", "start_enrichment", "re_enrich_ioc"}
     /\ Len(scoring.results) = 2
     /\ \A i \in 1..2 : /\ scoring.results[i].actor = "APT29"
                        /\ scoring.results[i].family = "Cozy Bear")
      => scoring.row.attribution_score = 90

\* C26: for every map both scores are integers in 0..100, and six malicious
\* results give a risk score of exactly 100.
C26_ScoresWithin0And100 ==
    scoring.row.by \in {"process_job", "start_enrichment", "re_enrich_ioc"}
      => /\ scoring.row.risk_score \in 0..100
         /\ scoring.row.attribution_score \in 0..100
         /\ (/\ Len(scoring.results) = 6
             /\ \A i \in 1..6 : scoring.results[i].verdict = "malicious")
              => scoring.row.risk_score = 100

\* Six malicious results that carry an actor: the sum of the points is above 100.
C26_Witness ==
    /\ scoring.row.by = "start_enrichment"
    /\ Len(scoring.results) = 6
    /\ \A i \in 1..6 : /\ scoring.results[i].verdict = "malicious"
                       /\ scoring.results[i].actor = "APT29"
    /\ scoring.row.risk_score = 100

\* C27: get_risk_band(r) is Low for r <= 24, Medium for 25..49, High for 50..74
\* and Critical for r >= 75, for every r in 0..100, and every IOCScore row added
\* by a job or by re-enrichment carries the band of its own risk_score.
C27_BandOfOwnScore ==
    scoring.row # NoScore
      => /\ scoring.row.risk_score \in 0..100
         /\ scoring.row.risk_score <= 24 => scoring.row.risk_band = "Low"
         /\ (25 <= scoring.row.risk_score /\ scoring.row.risk_score <= 49)
              => scoring.row.risk_band = "Medium"
         /\ (50 <= scoring.row.risk_score /\ scoring.row.risk_score <= 74)
              => scoring.row.risk_band = "High"
         /\ scoring.row.risk_score >= 75 => scoring.row.risk_band = "Critical"

\* A row added by re-enrichment whose score is the lowest of its band.
C27_Witness ==
    /\ scoring.row.by = "re_enrich_ioc"
    /\ scoring.row.risk_score = 25
    /\ scoring.row.risk_band = "Medium"

\* C28: a map extended with a result of verdict unknown, whatever its actor,
\* family and last_seen, has the risk score and the attribution score of the map
\* without it.
C28_UnknownResultChangesNothing ==
    LET m == scoring.results IN
    (/\ scoring.row.by \in {"process_job", "start_enrichment", "re_enrich_ioc"}
     /\ m # <<>>
     /\ m[Len(m)].verdict = "unknown")
      => /\ scoring.row.risk_score = calculate_risk_score(SubSeq(m, 1, Len(m) - 1))
         /\ scoring.row.attribution_score
              = calculate_attribution_score(SubSeq(m, 1, Len(m) - 1))

\* C29: the risk score, the attribution score and the band are the same for every
\* iteration order of the providers.  Every reordering is a chain of exchanges of
\* two neighbours, and every map is scored in some state, so it is enough that no
\* such exchange changes the row.
C29_OrderOfProvidersIrrelevant ==
    LET m == scoring.results IN
    scoring.row.by \in {"process_job", "start_enrichment", "re_enrich_ioc"}
      => \A i \in 1..(Len(m) - 1) :
            LET swapped == [m EXCEPT ![i] = m[i + 1], ![i + 1] = m[i]] IN
            /\ calculate_risk_score(swapped) = scoring.row.risk_score
            /\ calculate_attribution_score(swapped) = scoring.row.attribution_score
            /\ get_risk_band(calculate_risk_score(swapped)) = scoring.row.risk_band

\* The only result with an actor and the only recent last_seen come last.
C29_Witness ==
    LET m == scoring.results IN
    /\ scoring.row.by = "process_job"
    /\ Len(m) = 3
    /\ m[1] = Result("malicious", None, None, NoLastSeen)
    /\ m[2] = Result("suspicious", None, None, LastSeen("naive", 3))
    /\ m[3] = Result("unknown", "APT28", None, NoLastSeen)
    /\ scoring.row.risk_score = 40

\* C30: for VirusTotal, URLScan, CrowdStrike, Flashpoint and Recorded Future, when
\* the credential is absent the adapter is constructed without raising and enrich
\* returns verdict unknown, no http_status and the evidence "API key not
\* configured", for every IOC type, without a request to the upstream.
C30_MissingCredentialResult ==
    (/\ adapter.pc \notin {"none", "constructed"}
     /\ adapter.settings # CredentialsOf(adapter.name))
      => /\ adapter.pc = "returned"
         /\ adapter.requests = 0
         /\ adapter.result = Payload("unknown", NoHttpStatus, "API key not configured")

\* C31: for every (provider, IOC type) pair that the type-support table marks
\* unsupported, enrich (of an adapter that has its credential) returns verdict
\* unknown with the evidence "Unsupported IOC type: {t}" and makes no upstream
\* request.
C31_UnsupportedTypeResult ==
    LET table == CASE adapter.name = "virustotal" ->
                        {"url", "domain", "ipv4", "sha256", "md5"}
                   [] adapter.name \in {"urlscan", "osint"} -> {"url", "domain"}
                   [] adapter.name = "forensic" -> {"domain", "ipv4"}
                   [] OTHER -> {"url", "domain", "ipv4", "sha256", "md5", "email"}
    IN (/\ adapter.pc \notin {"none", "constructed"}
        /\ adapter.settings = CredentialsOf(adapter.name)
        /\ adapter.ioc_type \notin table)
         => /\ adapter.pc = "returned"
            /\ adapter.requests = 0
            /\ adapter.result = Payload("unknown", NoHttpStatus, "Unsupported IOC type")

\* C32: every verdict that reaches the cache, the map returned by enrich_ioc or an
\* EnrichmentResult row is one of unknown, benign, suspicious, malicious, for every
\* adapter and every upstream response, whatever its verdict fields hold.
C32_VerdictsAreCanonical ==
    /\ adapter.result # NoPayload => adapter.result.verdict \in Verdicts
    /\ adapter.row # "-" =>
          /\ adapter.cached.verdict \in Verdicts
          /\ adapter.enrichment_data.verdict \in Verdicts
          /\ adapter.row \in Verdicts

\* Flashpoint answered 200 with a level that is in no table; unknown was stored.
C32_Witness ==
    /\ adapter.name = "flashpoint"
    /\ adapter.pc = "returned"
    /\ adapter.raw.text = "weird"
    /\ adapter.result.http_status = 200
    /\ adapter.cached.verdict = "unknown"
    /\ adapter.row = "unknown"

\* C33: IOCScore rows are append-only: no step removes a row, and every pass in
\* which enrich_ioc returned has added exactly one committed IOCScore row for its
\* IOC by the time its handler ends (a pass in which it raised none): when a
\* handler ends, every IOCScore it added to its session is in the table.
C33_ScoresAppendOnly ==
    [][\A r \in Runs :
         LET rec == run[r]
             added == IF rec.pc = "re_score" THEN AddScore(rec.txScores, rec.i)
                      ELSE rec.txScores
         IN /\ \A i \in Iocs : scores'[i] >= scores[i]
            /\ (rec.pc # "ended" /\ run'[r].pc = "ended") =>
                  \A i \in Iocs : scores'[i] = scores[i] + added[i]]_vars

\* C34: over uploads that re-ingest the same (value, type, source_platform) the
\* stored last_seen never decreases and the stored first_seen never moves to a
\* later value, whatever timestamps the uploaded rows carry.
C34_SeenTimesMonotone ==
    [][stored.exists =>
          /\ stored'.last_seen >= stored.last_seen
          /\ stored'.first_seen <= stored.first_seen]_vars

\* C35: whenever a run moves the job to running, the same commit sets started_at
\* and leaves processed_iocs, successful_iocs and failed_iocs at 0, for a run by
\* process_job (a repeated one included) and for a run by POST /jobs/{job_id}/enrich;
\* stated for the runs in which nothing raises and the upload exists.
C35_RunningStartsFromZero ==
    [][(faults' = 0 /\ uploadExists') =>
         \A r \in Runs :
            ((\/ run[r].pc = "pj_start" /\ run'[r].pc = "pj_select"
              \/ run[r].pc = "se_running" /\ run'[r].pc = "se_select")
                => /\ job'.status = RUNNING
                   /\ job'.started_at = "utcnow"
                   /\ job'.processed_iocs = 0
                   /\ job'.successful_iocs = 0
                   /\ job'.failed_iocs = 0)]_vars

\* C36: a last_seen that denotes an instant within the last 7 days adds 10 to the
\* risk score exactly once, however many results carry one and in whichever form
\* (ISO-8601 string with Z or offset, ISO-8601 string without offset, epoch
\* seconds); a last_seen that does not parse adds nothing and the scorer returns.
C36_RecencyBonusOnce ==
    LET m == scoring.results
        Is == 1..Len(m)
        withinWeek == \E i \in Is : /\ m[i].last_seen.kind \in {"naive", "aware", "epoch"}
                                   /\ m[i].last_seen.age < 7
        stripped == calculate_risk_score(
                        [i \in Is |-> [m[i] EXCEPT !.last_seen = NoLastSeen]])
    IN scoring.row.by \in {"process_job", "start_enrichment", "re_enrich_ioc"}
        => scoring.row.risk_score =
              (IF withinWeek THEN Min2(100, stripped + 10) ELSE stripped)

\* C37: after set_cache_ttls has returned, every later cache write uses the new
\* clamped TTLs, whichever adapter performs it, the adapters of a pipeline that was
\* constructed before the call and is still at work included.
C37_WritesUseCurrentTtls ==
    [][(call.pc \in {"write", "failed"} /\ call'.pc = "returned")
        => cache'[Key].expires_at =
              now + (IF cache'[Key].payload.verdict = "unknown"
                     THEN ttl.negative ELSE ttl.positive)]_vars

\* C38: inside one _make_request call the sleep that follows failed attempt i
\* (counted from 0) lasts 2^i seconds plus a jitter in [0, 1), that is 1, 2 and 4
\* seconds and a fraction after attempts 0, 1 and 2; no sleep follows the fourth
\* failed attempt, which ends the call, and none precedes the first attempt, so a
\* call sleeps at most 3 times and makes at most 4 attempts.
C38_BackoffSchedule ==
    [][LET i == call.attempts
           whole == <<1, 2, 4>>
       IN /\ call'.sleeps <= 3
          /\ call'.attempts <= 4
          /\ call'.attempts = 0 => call'.sleeps = 0
          /\ (call.pc = "request" /\ call'.transport = call.transport + 1) =>
                IF i < 3
                THEN /\ call'.pc = "request"
                     /\ call'.sleeps = call.sleeps + 1
                     /\ whole[i + 1] * 1000 <= call'.delay
                     /\ call'.delay < whole[i + 1] * 1000 + 1000
                ELSE /\ call'.pc = "failed"
                     /\ call'.sleeps = call.sleeps
          /\ (call.pc = "request" /\ call'.transport = call.transport) =>
                call'.sleeps = call.sleeps]_vars

\* The third sleep of a call has been taken: 4 seconds and 999 milliseconds.
C38_Witness ==
    /\ call.pc = "request"
    /\ call.attempts = 3
    /\ call.sleeps = 3
    /\ call.delay = 4999

\* C39: cache entries are isolated by (provider, type, value): a lookup by provider
\* p for (t, v) returns only an entry that p wrote for exactly (t, v), and distinct
\* triples have distinct keys.
C39_CacheEntriesIsolated ==
    /\ shared.hit # NoHit => shared.hit.writer = <<shared.hit.provider, shared.hit.ioc>>
    /\ \A p1, p2 \in KeyProviders, i1, i2 \in KeyIocs :
          CacheKey(p1, i1) = CacheKey(p2, i2) => (p1 = p2 /\ i1 = i2)

\* urlscan found its own entry for a URL value that holds a colon and the name of
\* a type, while virustotal and the domain of the same name have entries too.
C39_Witness ==
    /\ shared.hit = Hit("urlscan", <<"url", <<"domain", ":", "a.example">>>>,
                        <<"urlscan", <<"url", <<"domain", ":", "a.example">>>>>>)
    /\ CacheKey("virustotal", <<"url", <<"domain", ":", "a.example">>>>)
          \in DOMAIN shared.cache
    /\ CacheKey("urlscan", <<"domain", <<"a.example">>>>) \in DOMAIN shared.cache

\* C40: enrich_with_cache never raises to its caller: whether the adapter's enrich
\* returned a result or raised, the call returns a result whose verdict is one of
\* the four canonical values, and on a cache miss it writes exactly one entry, the
\* one of its (provider, type, value) key, before it returns.
C40_EnrichWithCacheNeverRaises ==
    [][/\ call'.pc # "raised"
       /\ call'.pc = "returned" => call'.result.verdict \in Verdicts
       /\ call.pc \in {"write", "failed"} =>
             \/ call' = call
             \/ /\ call'.pc = "returned"
                /\ ~call'.hit
                /\ DOMAIN cache' = DOMAIN cache \cup {Key}
                /\ cache'[Key].payload = call'.result
                /\ \A k \in DOMAIN cache \ {Key} : cache'[k] = cache[k]
       /\ (call.pc \notin {"idle", "lookup", "write", "failed", "returned"}
              /\ call' # call) => cache' = cache
       /\ (call'.pc = "returned" /\ call.pc # "returned" /\ ~call'.hit)
             => call.pc \in {"write", "failed"}]_vars

\* The first adapter's enrich raised on a miss; the call has returned the error
\* result and the cache holds that one entry.
C40_Witness ==
    /\ call.pc = "returned"
    /\ ~call.hit
    /\ call.p = 1
    /\ call.calls = 1
    /\ call.result = ErrorResult
    /\ DOMAIN cache = {Key}

====
